---- MODULE Spec2Model ----
(***************************************************************************)
(* Vote accumulator (src/bot.py): the users table of votes.db, the guild   *)
(* member cache, and the gateway event handlers and admin commands that    *)
(* read and write them.                                                    *)
(***************************************************************************)
EXTENDS Integers, FiniteSets, Sequences, TLC

\* ------------------------------------------------------------------ bounds
\* Cap on the votes on record at once: the sum over all rows of
\* upvotes_earned + downvotes_earned, and the sum of |times_voted|.
MaxVotes == 2

\* Cap on the reaction handlers in flight at once.
MaxTasks == 2

\* --------------------------------------------------------------- constants
\* bot.py:353  "if down > up + 5"
AlertMargin == 5

\* Identities known to the platform: 1 and 2 are people, 3 is a bot account.
Ids == 1 .. 3
Bots == {3}
People == Ids \ Bots
Names == {"n1", "n2"}
Emojis == {"1Upvote", "1Downvote", "other"}
VoteEmojis == {"1Upvote", "1Downvote"}

\* Live (upvote, downvote) reaction tallies of a message as fetched by the
\* add handler: the two sides of the AlertMargin threshold.
Tallies == {<<1, AlertMargin + 1>>, <<1, AlertMargin + 2>>}

VARIABLES
    users,      \* the users table: user_id -> row
    members,    \* guild member cache: the people for whom get_member is
                \* not None (a bot's entry is never read without its bot
                \* flag deciding the same way, so it is not kept)
    last,       \* the event handled last and what the handler did outwardly
    tasks       \* the reaction handlers in flight: slot -> coroutine state

vars == <<users, members, last, tasks>>

\* top accepts 1..10 places (bot.py:560).
TopMin == 1
TopMax == 10

\* A threshold of limit is a float (bot.py:798); the thresholds of the model
\* are the multiples q / ThresholdUnit.
ThresholdUnit == 4

\* Numerators q of the thresholds given to limit: -1/4, 0, 1/4, 1/2, 1, 5/4.
Thresholds == {-1, 0, 1, 2, ThresholdUnit, ThresholdUnit + 1}

\* The optional second argument of limit.
MinVotesArgs == {<<>>, <<1>>, <<2>>}

\* The amount given to change_up and change_down.
Deltas == {-1, 1}

\* The places asked of top, and the columns it can order by.
Places == {TopMin - 1, TopMin, TopMin + 1, TopMax + 1}
Criteria == {"score", "upvotes_earned", "downvotes_earned", "times_voted"}

\* ------------------------------------------------------------ data model
IsBot(id) == id \in Bots

Member(id, name) == [id |-> id, name |-> name, bot |-> IsBot(id)]

ZeroRow(name) ==
    [user_name |-> name, upvotes_earned |-> 0, downvotes_earned |-> 0,
     score |-> 0, times_voted |-> 0]

EmptyTable == [id \in {} |-> ZeroRow("n1")]

\* The messages reacted to: a post of person 1 with an attachment, one
\* without, and a post of the bot account.
Messages == {[author |-> 1, attachments |-> 1],
             [author |-> 1, attachments |-> 0],
             [author |-> 3, attachments |-> 1]}

\* A reaction payload together with the message it points at.
Payloads ==
    {[voter |-> v, author |-> m.author, attachments |-> m.attachments,
      emoji |-> e] : v \in Ids, m \in Messages, e \in Emojis}

\* The users table (bot.py:93-100) and the member cache.
Rows ==
    [user_name : Names, upvotes_earned : Int, downvotes_earned : Int,
     score : Int, times_voted : Int]

TypeOK ==
    /\ DOMAIN users \subseteq People
    /\ \A id \in DOMAIN users : users[id] \in Rows
    /\ members \subseteq People

\* ------------------------------------------------------- sqlite connection
\* view: what the connection reads (its own uncommitted writes included);
\* disk: what is committed.  Every handler opens its own connection and
\* never closes it; the connection is finalised when the handler's locals
\* are released, which rolls an open transaction back.  The store is taken
\* to finalise it as the handler returns; an interpreter that keeps a
\* dropped connection until a later collection pass would hold its write
\* lock until then.
get_db_and_cursor(db) == [view |-> db, disk |-> db]

commit(c) == [view |-> c.view, disk |-> c.view]

close(c) == c.disk

HasRow(c, id) == id \in DOMAIN c.view

\* UPDATE users SET col = col + delta WHERE user_id = id
UpdateAdd(c, id, col, delta) ==
    IF HasRow(c, id)
    THEN [c EXCEPT !.view = [c.view EXCEPT ![id][col] = @ + delta]]
    ELSE c

\* UPDATE users SET user_name = name WHERE user_id = id
UpdateName(c, id, name) ==
    IF HasRow(c, id)
    THEN [c EXCEPT !.view = [c.view EXCEPT ![id].user_name = name]]
    ELSE c

\* SELECT col FROM users WHERE user_id = id LIMIT 1; fetchone():
\* a one-column row, or None (the empty tuple here).
FetchOne(c, id, col) ==
    IF HasRow(c, id) THEN <<c.view[id][col]>> ELSE <<>>

\* DELETE FROM users WHERE user_id = id
DeleteRow(c, id) ==
    [c EXCEPT !.view = [i \in (DOMAIN c.view) \ {id} |-> c.view[i]]]

\* add_user without the member.bot check.
add_userNoBotCheck(c, member) ==
    IF HasRow(c, member.id)
    THEN [conn |-> c, error |-> "IntegrityError"]
    ELSE [conn |-> commit([c EXCEPT !.view =
                     [i \in (DOMAIN c.view) \cup {member.id} |->
                        IF i = member.id THEN ZeroRow(member.name)
                        ELSE c.view[i]]]),
          error |-> "none"]

\* ----------------------------------------------------------------- add_user
\* INSERT of a zeroed row, committed; IntegrityError on an existing key;
\* nothing at all for a bot.
add_user(c, member) ==
    IF member.bot
    THEN [conn |-> c, error |-> "none"]
    ELSE IF HasRow(c, member.id)
    THEN [conn |-> c, error |-> "IntegrityError"]
    ELSE [conn |-> commit([c EXCEPT !.view =
                     [i \in (DOMAIN c.view) \cup {member.id} |->
                        IF i = member.id THEN ZeroRow(member.name)
                        ELSE c.view[i]]]),
          error |-> "none"]

\* The loop of on_ready and update: add_user, and on IntegrityError the
\* user_name UPDATE.
RECURSIVE SyncLoop(_, _)
SyncLoop(c, ms) ==
    IF ms = {} THEN c
    ELSE LET m == CHOOSE x \in ms : TRUE
             r == add_user(c, m)
             c1 == IF r.error = "IntegrityError"
                   THEN UpdateName(r.conn, m.id, m.name)
                   ELSE r.conn
         IN SyncLoop(c1, ms \ {m})

\* SyncAll without the db.commit() that follows the loop.
SyncAllNoCommit(db, ms) == close(SyncLoop(get_db_and_cursor(db), ms))

SyncAll(db, ms) == close(commit(SyncLoop(get_db_and_cursor(db), ms)))

\* bot.py:238-244; an IntegrityError of add_user is not caught here.
on_member_join(db, member) ==
    IF member.bot THEN [users |-> db, error |-> "none"]
    ELSE LET r == add_user(get_db_and_cursor(db), member)
         IN [users |-> close(r.conn), error |-> r.error]

\* on_member_remove without the DELETE.
on_member_removeKeepsRow(db, id) == db

\* bot.py:253-260
on_member_remove(db, id) ==
    IF IsBot(id) THEN db
    ELSE close(commit(DeleteRow(get_db_and_cursor(db), id)))

\* bot.py:269-276
on_user_update(db, id, name) ==
    IF IsBot(id) THEN db
    ELSE close(commit(UpdateName(get_db_and_cursor(db), id, name)))

\* --------------------------------------------------------- reaction handlers
\* What a reaction handler did: the table it leaves, whether it took the
\* reaction off the message, the exception that ended it, whether it sent a
\* report, and whether the floor check kept it from decrementing.
Outcome(db, retracted, error, alert, floored) ==
    [users |-> db, retracted |-> retracted, error |-> error, alert |-> alert,
     floored |-> floored]

Dropped(db) == Outcome(db, FALSE, "none", FALSE, FALSE)

\* AddGate without the attachment check.
AddGateNoAttachments(guild, p) ==
    p.author \notin guild \/ IsBot(p.author)

\* bot.py:302  author not in the guild, author a bot, or no attachment
AddGate(guild, p) ==
    p.author \notin guild \/ IsBot(p.author) \/ p.attachments = 0

\* bot.py:305
IsSelfReaction(p) == p.author = p.voter

\* CreditAuthor with the score UPDATE left out.
CreditAuthorNoScore(c, author, col, dcol, dscore) ==
    LET c1 == UpdateAdd(c, author, col, dcol)
    IN IF FetchOne(c1, author, "user_name") = <<>> THEN c1 ELSE commit(c1)

\* bot.py:312-320, 324-332, 383-391, 398-406: the author's counter and score,
\* committed if the author's row is found.
CreditAuthor(c, author, col, dcol, dscore) ==
    LET c1 == UpdateAdd(c, author, col, dcol)
        c2 == UpdateAdd(c1, author, "score", dscore)
    IN IF FetchOne(c2, author, "user_name") = <<>> THEN c2 ELSE commit(c2)

\* CountVoter whose UPDATE has no WHERE clause.
CountVoterNoWhere(c, voter, delta) ==
    commit([c EXCEPT !.view =
              [i \in DOMAIN c.view |->
                 [c.view[i] EXCEPT !.times_voted = @ + delta]]])

\* bot.py:337-343, 410-416: the voter's times_voted, committed if the
\* voter's row is found.
CountVoter(c, voter, delta) ==
    LET c1 == UpdateAdd(c, voter, "times_voted", delta)
    IN IF FetchOne(c1, voter, "user_name") = <<>> THEN c1 ELSE commit(c1)

\* ShouldReport with >= in place of >.
ShouldReportAtMargin(tally) == tally[2] >= tally[1] + AlertMargin

\* bot.py:346-353
ShouldReport(tally) == tally[2] > tally[1] + AlertMargin

on_raw_reaction_add(db, guild, p, tally) ==
    IF IsBot(p.voter) THEN Dropped(db)
    ELSE IF AddGate(guild, p) THEN Dropped(db)
    ELSE IF IsSelfReaction(p) THEN Outcome(db, TRUE, "none", FALSE, FALSE)
    ELSE
      LET c0 == get_db_and_cursor(db)
          c1 == IF p.emoji = "1Upvote"
                THEN CreditAuthor(c0, p.author, "upvotes_earned", 1, 1)
                ELSE IF p.emoji = "1Downvote"
                THEN CreditAuthor(c0, p.author, "downvotes_earned", 1, -1)
                ELSE c0
          c2 == IF p.emoji \in VoteEmojis
                THEN CountVoter(c1, p.voter, 1)
                ELSE c1
      IN Outcome(close(c2), FALSE, "none", ShouldReport(tally), FALSE)

\* RemoveGate without the self-reaction check.
RemoveGateNoSelf(guild, p) ==
    \/ p.author \notin guild
    \/ IsBot(p.author) \/ p.attachments = 0

\* RemoveGate without the attachment check.
RemoveGateNoAttachments(guild, p) ==
    \/ p.author \notin guild
    \/ IsBot(p.author) \/ p.author = p.voter

\* bot.py:372-376
RemoveGate(guild, p) ==
    \/ p.author \notin guild
    \/ IsBot(p.author) \/ p.author = p.voter \/ p.attachments = 0

\* FloorGuard that lets a counter at zero through.
FloorGuardAlwaysPass(c, author, col) ==
    IF FetchOne(c, author, col) = <<>> THEN "TypeError" ELSE "pass"

\* bot.py:380-382, 395-397: cursor.fetchone()[0] > 0
FloorGuard(c, author, col) ==
    LET row == FetchOne(c, author, col)
    IN IF row = <<>> THEN "TypeError"
       ELSE IF row[1] > 0 THEN "pass" ELSE "skip"

\* DebitAuthor that takes the vote back but leaves the score as it was.
DebitAuthorKeepsScore(c, author, col, dscore) ==
    IF FloorGuard(c, author, col) = "TypeError"
    THEN [conn |-> c, error |-> "TypeError", floored |-> FALSE]
    ELSE IF FloorGuard(c, author, col) = "pass"
    THEN [conn |-> CreditAuthor(c, author, col, -1, 0),
          error |-> "none", floored |-> FALSE]
    ELSE [conn |-> c, error |-> "none", floored |-> TRUE]

\* DebitAuthor that still moves the score when the counter is at zero.
DebitAuthorFloorMovesScore(c, author, col, dscore) ==
    IF FloorGuard(c, author, col) = "TypeError"
    THEN [conn |-> c, error |-> "TypeError", floored |-> FALSE]
    ELSE IF FloorGuard(c, author, col) = "pass"
    THEN [conn |-> CreditAuthor(c, author, col, -1, dscore),
          error |-> "none", floored |-> FALSE]
    ELSE [conn |-> CreditAuthor(c, author, col, 0, dscore),
          error |-> "none", floored |-> TRUE]

\* bot.py:378-406: the author's side of a removed vote
DebitAuthor(c, author, col, dscore) ==
    LET g == FloorGuard(c, author, col)
    IN IF g = "TypeError"
       THEN [conn |-> c, error |-> "TypeError", floored |-> FALSE]
       ELSE IF g = "pass"
       THEN [conn |-> CreditAuthor(c, author, col, -1, dscore),
             error |-> "none", floored |-> FALSE]
       ELSE [conn |-> c, error |-> "none", floored |-> TRUE]

on_raw_reaction_remove(db, guild, p) ==
    IF RemoveGate(guild, p) THEN Dropped(db)
    ELSE
      LET c0 == get_db_and_cursor(db)
          r1 == IF p.emoji = "1Upvote"
                THEN DebitAuthor(c0, p.author, "upvotes_earned", -1)
                ELSE IF p.emoji = "1Downvote"
                THEN DebitAuthor(c0, p.author, "downvotes_earned", 1)
                ELSE [conn |-> c0, error |-> "none", floored |-> FALSE]
          c2 == IF p.emoji \in VoteEmojis
                THEN CountVoter(r1.conn, p.voter, -1)
                ELSE r1.conn
      IN IF r1.error # "none"
         THEN Outcome(close(r1.conn), FALSE, r1.error, FALSE, FALSE)
         ELSE Outcome(close(c2), FALSE, "none", FALSE, r1.floored)

\* ---------------------------------------------------------------- commands

\* change_up (bot.py:662-688): only upvotes_earned is written.
change_up(db, id, num) ==
    LET c0 == get_db_and_cursor(db)
        c1 == IF HasRow(c0, id)
              THEN UpdateAdd(c0, id, "upvotes_earned", num)
              ELSE c0
    IN close(commit(c1))

\* change_down (bot.py:698-724): only downvotes_earned is written.
change_down(db, id, num) ==
    LET c0 == get_db_and_cursor(db)
        c1 == IF HasRow(c0, id)
              THEN UpdateAdd(c0, id, "downvotes_earned", num)
              ELSE c0
    IN close(commit(c1))

\* limit's range check (bot.py:807), on a threshold of q / ThresholdUnit.
LimitRejects(q) == q <= 0 /\ q >= ThresholdUnit

\* row[3] != 0 or row[4] != 0 (bot.py:819, 590): row[3] is downvotes_earned
\* and row[4] is score.
PassesZeroFilter(row) == row.downvotes_earned # 0 \/ row.score # 0

Total(row) == row.upvotes_earned + row.downvotes_earned

\* row[2] / total <= limit (bot.py:821-822) for total # 0, in exact
\* arithmetic: up / total <= q / ThresholdUnit.
RatioAtMost(row, q) ==
    IF Total(row) > 0
    THEN row.upvotes_earned * ThresholdUnit <= q * Total(row)
    ELSE row.upvotes_earned * ThresholdUnit >= q * Total(row)

\* limit (bot.py:789-834): rejected, the error that ends the scan, and the
\* accounts listed in the report. min is <<>> without a second argument.
limit(db, q, min) ==
    IF LimitRejects(q)
    THEN [rejected |-> TRUE, error |-> "none", found |-> {}]
    ELSE LET scanned == {i \in DOMAIN db : PassesZeroFilter(db[i])}
         IN IF \E i \in scanned : Total(db[i]) = 0
            THEN [rejected |-> FALSE, error |-> "ZeroDivisionError",
                  found |-> {}]
            ELSE [rejected |-> FALSE, error |-> "none",
                  found |-> {i \in scanned :
                               /\ RatioAtMost(db[i], q)
                               /\ ~(min # <<>> /\ Total(db[i]) < min[1])}]

\* SELECT * FROM users ORDER BY k DESC (bot.py:576): every order of all the
\* rows that is non-increasing in k; sqlite does not fix the order of ties.
OrderBy(db, k) ==
    {s \in [1..Cardinality(DOMAIN db) -> DOMAIN db] :
        /\ \A i, j \in DOMAIN s : i # j => s[i] # s[j]
        /\ \A i, j \in DOMAIN s : i < j => db[s[i]][k] >= db[s[j]][k]}

\* LIMIT num
FirstRows(order, num) ==
    SubSeq(order, 1, IF num < Len(order) THEN num ELSE Len(order))

\* top (bot.py:543-597) over one order the SELECT may return: the ids of the
\* rows listed, in the order listed.
top(db, num, k, order) ==
    IF num < TopMin \/ num > TopMax
    THEN [rejected |-> TRUE, rows |-> <<>>]
    ELSE LET Listed(id) == PassesZeroFilter(db[id]) \/ k = "times_voted"
         IN [rejected |-> FALSE,
             rows |-> SelectSeq(FirstRows(order, num), Listed)]

\* ------------------------------------------------------------------ events
NoPayload == [voter |-> 0, author |-> 0, attachments |-> 0, emoji |-> "none"]

\* A slot without a handler in flight.
TaskIds == 1 .. MaxTasks
Idle == [kind |-> "none", p |-> NoPayload, pc |-> "idle", guard |-> "none"]

\* arg: the arguments of a command.
Event(kind, p, o, induced) ==
    [kind |-> kind, voter |-> p.voter, author |-> p.author,
     attachments |-> p.attachments, emoji |-> p.emoji,
     retracted |-> o.retracted, error |-> o.error, alert |-> o.alert,
     floored |-> o.floored, induced |-> induced, arg |-> <<>>]

MemberEvent(kind, id, error) ==
    Event(kind, [NoPayload EXCEPT !.voter = id],
          Outcome(users, FALSE, error, FALSE, FALSE), FALSE)

CommandEvent(kind, arg, error) ==
    [MemberEvent(kind, 0, error) EXCEPT !.arg = arg]

LastPayload ==
    [voter |-> last.voter, author |-> last.author,
     attachments |-> last.attachments, emoji |-> last.emoji]

Abs(n) == IF n < 0 THEN -n ELSE n

Earned(db, id) ==
    IF id \in DOMAIN db
    THEN Abs(db[id].upvotes_earned) + Abs(db[id].downvotes_earned)
    ELSE 0

Cast(db, id) == IF id \in DOMAIN db THEN Abs(db[id].times_voted) ELSE 0

Scored(db, id) == IF id \in DOMAIN db THEN Abs(db[id].score) ELSE 0

WithinBounds(db) ==
    /\ Earned(db, 1) + Earned(db, 2) <= MaxVotes
    /\ Cast(db, 1) + Cast(db, 2) <= MaxVotes
    /\ Scored(db, 1) + Scored(db, 2) <= MaxVotes

Init ==
    /\ users = EmptyTable
    /\ members = {}
    /\ last = Event("init", NoPayload, Dropped(EmptyTable), FALSE)
    /\ tasks = [t \in TaskIds |-> Idle]

\* on_ready: the gateway (re)connected; the guild cache holds whoever is a
\* member now, and the table is synced with them.
OnReady ==
    \E ids \in SUBSET Ids : \E nm \in [ids -> Names] :
        /\ members' = ids \cap People
        /\ users' = SyncAll(users, {Member(i, nm[i]) : i \in ids})
        /\ UNCHANGED tasks
        /\ last' = MemberEvent("ready", 0, "none")

OnMemberJoin ==
    \E id \in Ids \ members : \E name \in Names :
        \E r \in {on_member_join(users, Member(id, name))} :
           /\ members' = (members \cup {id}) \cap People
           /\ users' = r.users
           /\ UNCHANGED tasks
           /\ last' = MemberEvent("join", id, r.error)

OnMemberRemove ==
    \E id \in members \cup Bots :
        /\ members' = members \ {id}
        /\ users' = on_member_remove(users, id)
        /\ UNCHANGED tasks
        /\ last' = MemberEvent("leave", id, "none")

OnUserUpdate ==
    \E id \in Ids : \E name \in Names :
        /\ users' = on_user_update(users, id, name)
        /\ UNCHANGED tasks
        /\ last' = MemberEvent("rename", id, "none")
        /\ UNCHANGED members

OnRawReactionAdd ==
    \E p \in Payloads : \E tally \in Tallies :
        /\ p.voter \in members \cup Bots
        /\ \E o \in {on_raw_reaction_add(users, members, p, tally)} :
              /\ WithinBounds(o.users)
              /\ users' = o.users
              /\ UNCHANGED tasks
              /\ last' = Event("add", p, o, FALSE)
        /\ UNCHANGED members

OnRawReactionRemove ==
    \E p \in Payloads :
        /\ \E o \in {on_raw_reaction_remove(users, members, p)} :
              /\ WithinBounds(o.users)
              /\ users' = o.users
              /\ UNCHANGED tasks
              /\ last' = Event("remove", p, o, FALSE)
        /\ UNCHANGED members

\* The remove event that message.remove_reaction (bot.py:306) causes.
OnRetractionEcho ==
    /\ last.kind = "add" /\ last.retracted
    /\ \E o \in {on_raw_reaction_remove(users, members, LastPayload)} :
          /\ users' = o.users
          /\ UNCHANGED tasks
          /\ last' = Event("remove", LastPayload, o, TRUE)
    /\ UNCHANGED members

\* The update command (bot.py:734-748): the sync loop over ctx.guild.members.
Update ==
    \E bots \in SUBSET Bots : \E nm \in [members \cup bots -> Names] :
        /\ users' = SyncAll(users, {Member(i, nm[i]) : i \in members \cup bots})
        /\ UNCHANGED tasks
        /\ last' = MemberEvent("update", 0, "none")
        /\ UNCHANGED members

\* destroy_the_database_yes_i_know_what_this_means
DestroyTheDatabase ==
    /\ users' = EmptyTable
    /\ UNCHANGED tasks
    /\ last' = MemberEvent("destroy", 0, "none")
    /\ UNCHANGED members

Next ==
    \/ OnReady
    \/ OnMemberJoin
    \/ OnMemberRemove
    \/ OnUserUpdate
    \/ OnRawReactionAdd
    \/ OnRawReactionRemove
    \/ OnRetractionEcho
    \/ Update
    \/ DestroyTheDatabase

Spec == Init /\ [][Next]_vars

\* ------------------------------------------------------------ admin commands

ChangeUp ==
    \E id \in Ids : \E num \in Deltas :
        \E db \in {change_up(users, id, num)} :
           /\ WithinBounds(db)
           /\ users' = db
           /\ UNCHANGED tasks
           /\ last' = CommandEvent("change_up", <<id, num>>, "none")
           /\ UNCHANGED members

ChangeDown ==
    \E id \in Ids : \E num \in Deltas :
        \E db \in {change_down(users, id, num)} :
           /\ WithinBounds(db)
           /\ users' = db
           /\ UNCHANGED tasks
           /\ last' = CommandEvent("change_down", <<id, num>>, "none")
           /\ UNCHANGED members

Limit ==
    \E q \in Thresholds : \E min \in MinVotesArgs :
        /\ UNCHANGED tasks
        /\ last' = CommandEvent("limit", <<q, min>>, limit(users, q, min).error)
        /\ UNCHANGED <<users, members>>

Top ==
    \E num \in Places : \E k \in Criteria :
        /\ UNCHANGED tasks
        /\ last' = CommandEvent("top", <<num, k>>, "none")
        /\ UNCHANGED <<users, members>>

\* The commands are checked over a guild in which every member of Ids has
\* been synced by on_ready, and over the reaction events that are counted as
\* votes: a person's reaction to another person's attachment-bearing post.
WholeGuild == {Member(i, "n1") : i \in Ids}

CountedPayloads ==
    {p \in Payloads : /\ p.voter \in People /\ p.author \in People
                      /\ p.voter # p.author /\ p.attachments > 0}

StartUp ==
    /\ members' = People
    /\ users' = SyncAll(users, WholeGuild)
    /\ UNCHANGED tasks
    /\ last' = MemberEvent("ready", 0, "none")

Vote ==
    \E p \in CountedPayloads : \E tally \in Tallies :
        /\ p.voter \in members
        /\ \E o \in {on_raw_reaction_add(users, members, p, tally)} :
              /\ WithinBounds(o.users)
              /\ users' = o.users
              /\ UNCHANGED tasks
              /\ last' = Event("add", p, o, FALSE)
        /\ UNCHANGED members

Unvote ==
    \E p \in CountedPayloads :
        /\ \E o \in {on_raw_reaction_remove(users, members, p)} :
              /\ WithinBounds(o.users)
              /\ users' = o.users
              /\ UNCHANGED tasks
              /\ last' = Event("remove", p, o, FALSE)
        /\ UNCHANGED members

NextCommands ==
    \/ StartUp
    \/ Vote
    \/ Unvote
    \/ ChangeUp
    \/ ChangeDown
    \/ Limit
    \/ Top

SpecCommands == Init /\ [][NextCommands]_vars

\* ------------------------------------------------- handlers in flight
\* A reaction handler is a coroutine: it runs alone until it reaches an
\* await, and other handlers run only while it is suspended there.
\*   fetch    suspended in the fetches (bot.py:293-295, 367-368)
\*   read     past the gates and the floor-guard SELECT, before the UPDATEs
\*   retract  suspended in message.remove_reaction (bot.py:306)
\*   send     suspended in log_channel.send (bot.py:355)

\* Reactions of a person to an attachment-bearing post of a person, a
\* person's own post included.
AsyncPayloads ==
    {p \in Payloads : /\ p.voter \in People /\ p.author \in People
                      /\ p.attachments > 0 /\ p.emoji \in VoteEmojis}

\* A remove handler that awaits between its floor-guard SELECT and its
\* UPDATEs.
AwaitsBeforeWriteInRemove(kind) == kind = "remove"

\* Whether a handler awaits between its gates and floor-guard SELECT and its
\* UPDATEs and commits: there is no await in bot.py:297-343 on the path past
\* the gates, nor in bot.py:369-416.
AwaitsBeforeWrite(kind) == FALSE

\* The handler that holds the event loop.
Running(task) == task.pc = "read" /\ ~AwaitsBeforeWrite(task.kind)

MayRun(t) == \A u \in TaskIds \ {t} : ~Running(tasks[u])

GuardColumn(p) ==
    IF p.emoji = "1Upvote" THEN "upvotes_earned" ELSE "downvotes_earned"

\* bot.py:383-391, 398-406, 409-416: the UPDATEs of the remove handler, run
\* on what its floor-guard SELECT returned.
RemoveWrites(db, p, guard) ==
    LET c0 == get_db_and_cursor(db)
        c1 == IF guard = "pass"
              THEN CreditAuthor(c0, p.author, GuardColumn(p), -1,
                                IF p.emoji = "1Upvote" THEN -1 ELSE 1)
              ELSE c0
    IN Outcome(close(CountVoter(c1, p.voter, -1)), FALSE, "none", FALSE,
               guard = "skip")

\* A reaction event arrives and its handler runs up to the first fetch.
Dispatch ==
    \E t \in TaskIds : \E kind \in {"add", "remove"} :
      \E p \in AsyncPayloads :
        /\ tasks[t] = Idle /\ MayRun(t)
        /\ \A u \in TaskIds : u < t => tasks[u] # Idle
        /\ p.voter \in members
        /\ tasks' = [tasks EXCEPT ![t] =
                        [kind |-> kind, p |-> p, pc |-> "fetch",
                         guard |-> "none"]]
        /\ UNCHANGED <<users, members, last>>

\* The fetches return: the handler runs the gates (bot.py:302-307, 372-376)
\* and, in remove, the floor-guard SELECT (bot.py:380-382, 395-397).
Read ==
    \E t \in TaskIds :
      LET task == tasks[t]
          p    == task.p
          stop(o) == /\ tasks' = [tasks EXCEPT ![t] = Idle]
                     /\ last' = Event(task.kind, p, o, FALSE)
          go(g)   == /\ tasks' = [tasks EXCEPT ![t].pc = "read",
                                                ![t].guard = g]
                     /\ UNCHANGED last
      IN /\ task.pc = "fetch" /\ MayRun(t)
         /\ UNCHANGED <<users, members>>
         /\ IF task.kind = "add"
            THEN IF AddGate(members, p) THEN stop(Dropped(users))
                 ELSE IF IsSelfReaction(p)
                 THEN /\ tasks' = [tasks EXCEPT ![t].pc = "retract"]
                      /\ last' = Event("add", p,
                                    Outcome(users, TRUE, "none", FALSE, FALSE),
                                    FALSE)
                 ELSE /\ \E tally \in Tallies :
                           WithinBounds(on_raw_reaction_add(users, members, p,
                                                            tally).users)
                      /\ go("pass")
            ELSE IF RemoveGate(members, p) THEN stop(Dropped(users))
                 ELSE \E g \in {FloorGuard(get_db_and_cursor(users), p.author,
                                           GuardColumn(p))} :
                        IF g = "TypeError"
                        THEN stop(Outcome(users, FALSE, g, FALSE, FALSE))
                        ELSE /\ WithinBounds(RemoveWrites(users, p, g).users)
                             /\ go(g)

\* The UPDATEs and commits (bot.py:309-343, 383-416) and, in add, the
\* post-wise counting (bot.py:345-353).
Write ==
    \E t \in TaskIds :
      LET task == tasks[t]
          p    == task.p
      IN /\ task.pc = "read" /\ MayRun(t)
         /\ UNCHANGED members
         /\ IF task.kind = "add"
            THEN \E tally \in Tallies :
                   \E o \in {on_raw_reaction_add(users, members, p, tally)} :
                     /\ users' = o.users
                     /\ last' = Event("add", p, o, FALSE)
                     /\ tasks' = [tasks EXCEPT ![t] =
                                     IF o.alert
                                     THEN [task EXCEPT !.pc = "send"]
                                     ELSE Idle]
            ELSE \E o \in {RemoveWrites(users, p, task.guard)} :
                     /\ users' = o.users
                     /\ last' = Event("remove", p, o, FALSE)
                     /\ tasks' = [tasks EXCEPT ![t] = Idle]

\* message.remove_reaction or log_channel.send returns; the handler ends.
Finish ==
    \E t \in TaskIds :
        /\ tasks[t].pc \in {"retract", "send"} /\ MayRun(t)
        /\ tasks' = [tasks EXCEPT ![t] = Idle]
        /\ UNCHANGED <<users, members, last>>

\* on_ready between the steps of the handlers in flight.
Resync ==
    /\ \A t \in TaskIds : ~Running(tasks[t])
    /\ StartUp

NextAsync ==
    \/ Resync
    \/ Dispatch
    \/ Read
    \/ Write
    \/ Finish

SpecAsync == Init /\ [][NextAsync]_vars

\* ================================================================= claims
\* The gates of the ledger as the specification lists them: a reaction of a
\* person on an attachment-bearing post of another person who is in the
\* guild, with a vote emoji.
PassesGates(guild, p) ==
    /\ ~IsBot(p.voter)
    /\ p.author \in guild /\ ~IsBot(p.author)
    /\ p.author # p.voter
    /\ p.attachments > 0
    /\ p.emoji \in VoteEmojis

IsReaction(e) == e.kind \in {"add", "remove"}

Counters(row) ==
    <<row.upvotes_earned, row.downvotes_earned, row.score, row.times_voted>>

\* C1: after any sequence of membership and reaction events every stored
\* account has score = upvotes_earned - downvotes_earned.
C1_ScoreIsDifference ==
    \A id \in DOMAIN users :
        users[id].score = users[id].upvotes_earned - users[id].downvotes_earned

\* A counted remove has just taken an author from two upvotes to one.
C1_Witness ==
    /\ last.kind = "remove" /\ last.emoji = "1Upvote"
    /\ PassesGates(members, LastPayload)
    /\ last.error = "none" /\ ~last.floored
    /\ last.author \in DOMAIN users
    /\ users[last.author].upvotes_earned = 1
    /\ users[last.author].score = 1

\* C2: upvotes_earned and downvotes_earned of every account stay >= 0 under
\* any sequence of reaction events, removes without a matching add included.
C2_EarnedNonNegative ==
    \A id \in DOMAIN users :
        users[id].upvotes_earned >= 0 /\ users[id].downvotes_earned >= 0

\* A remove has just met the floor: the author's counter was already 0.
C2_Witness ==
    /\ last.kind = "remove" /\ last.floored
    /\ PassesGates(members, LastPayload)
    /\ last.author \in DOMAIN users
    /\ users[last.author].upvotes_earned = 0
    /\ users[last.author].downvotes_earned = 0

\* C3: times_voted of every account is >= 0 in every reachable state.
C3_CastNonNegative ==
    \A id \in DOMAIN users : users[id].times_voted >= 0

\* C4: round trip.  In every reachable state, for a person B in the guild and
\* a tracked author A # B of an attachment-bearing post, add(vote) by B takes
\* A's counter up by one, A's score one step and B's times_voted up by one,
\* and the remove(vote) by B that follows returns all three to their values
\* before the add; for upvote and for downvote.
C4_RoundTrip ==
    \A p \in Payloads : \A tally \in Tallies :
        ( /\ PassesGates(members, p)
          /\ p.voter \in members
          /\ p.author \in DOMAIN users
          /\ p.voter \in DOMAIN users )
        =>
        LET col == IF p.emoji = "1Upvote" THEN "upvotes_earned"
                   ELSE "downvotes_earned"
            step == IF p.emoji = "1Upvote" THEN 1 ELSE -1
            added == on_raw_reaction_add(users, members, p, tally).users
            back == on_raw_reaction_remove(added, members, p).users
        IN /\ added[p.author][col] = users[p.author][col] + 1
           /\ added[p.author].score = users[p.author].score + step
           /\ added[p.voter].times_voted = users[p.voter].times_voted + 1
           /\ back[p.author][col] = users[p.author][col]
           /\ back[p.author].score = users[p.author].score
           /\ back[p.voter].times_voted = users[p.voter].times_voted

\* B's counted remove(upvote) has just brought A and B back to all zeros.
C4_Witness ==
    /\ last.kind = "remove" /\ last.emoji = "1Upvote"
    /\ PassesGates(members, LastPayload)
    /\ last.error = "none" /\ ~last.floored
    /\ last.author \in DOMAIN users /\ last.voter \in DOMAIN users
    /\ Counters(users[last.author]) = <<0, 0, 0, 0>>
    /\ Counters(users[last.voter]) = <<0, 0, 0, 0>>

\* C5: a reaction event, add or remove, whose reactor is a bot mutates no
\* account.
C5_BotReactionMutatesNothing ==
    [][(IsReaction(last') /\ IsBot(last'.voter)) => users' = users]_vars

\* C6: a self-reaction event (reactor = author), add or remove, the remove
\* that a retraction causes included, changes no counter of any account.
C6_SelfReactionMutatesNothing ==
    \A p \in Payloads : \A tally \in Tallies :
        p.voter = p.author =>
            /\ on_raw_reaction_add(users, members, p, tally).users = users
            /\ on_raw_reaction_remove(users, members, p).users = users

\* The remove caused by retracting an author's own upvote has been handled
\* while that author had upvotes to lose.
C6_Witness ==
    /\ last.kind = "remove" /\ last.induced
    /\ last.voter = last.author /\ last.emoji = "1Upvote"
    /\ last.author \in members /\ last.author \in DOMAIN users
    /\ users[last.author].upvotes_earned > 0

\* C7 as claimed: every add by a person on their own post (author tracked
\* and not a bot) is retracted, whatever the attachment count and emoji.
C7_SelfAddAlwaysRetracted ==
    [][( /\ last'.kind = "add"
         /\ last'.voter = last'.author /\ ~IsBot(last'.voter)
         /\ last'.author \in members /\ last'.author \in DOMAIN users )
       => last'.retracted]_vars

\* C7 amended: an add by a person in the guild on their own post is
\* retracted exactly when the post carries an attachment, whatever the emoji.
C7_SelfAddRetractedIffAttachment ==
    \A p \in Payloads : \A tally \in Tallies :
        (p.voter = p.author /\ ~IsBot(p.voter) /\ p.voter \in members)
        => (on_raw_reaction_add(users, members, p, tally).retracted
              <=> p.attachments > 0)

\* A self-reaction with an emoji that is no vote has just been retracted.
C7_Witness ==
    /\ last.kind = "add" /\ last.retracted
    /\ last.voter = last.author /\ last.emoji = "other"
    /\ last.attachments > 0

\* C8: a reaction event on a message without attachments leaves every
\* counter of every account unchanged.
C8_NoAttachmentMutatesNothing ==
    \A p \in Payloads : \A tally \in Tallies :
        p.attachments = 0 =>
            /\ on_raw_reaction_add(users, members, p, tally).users = users
            /\ on_raw_reaction_remove(users, members, p).users = users

\* A person's remove(upvote) on another person's attachment-less post has
\* been handled while that author had upvotes to lose.
C8_Witness ==
    /\ last.kind = "remove" /\ last.emoji = "1Upvote"
    /\ last.attachments = 0
    /\ last.voter # last.author /\ ~IsBot(last.voter)
    /\ last.author \in members /\ last.author \in DOMAIN users
    /\ last.voter \in DOMAIN users
    /\ users[last.author].upvotes_earned > 0

\* C9: a reaction event whose author is in the guild, is no bot and has no
\* row raises no error in the handler and mutates no account.
C9_MissingAuthorDropsEvent ==
    [][( /\ IsReaction(last')
         /\ last'.author \in members /\ ~IsBot(last'.author)
         /\ last'.author \notin DOMAIN users )
       => (last'.error = "none" /\ users' = users)]_vars

\* C10: a reaction event of a person who has no row leaves the author's
\* upvotes_earned, downvotes_earned and score unchanged.
C10_MissingVoterDropsEvent ==
    [][( /\ IsReaction(last')
         /\ ~IsBot(last'.voter) /\ last'.voter \notin DOMAIN users
         /\ last'.author \in DOMAIN users )
       => ( /\ last'.author \in DOMAIN users'
            /\ users'[last'.author].upvotes_earned
                 = users[last'.author].upvotes_earned
            /\ users'[last'.author].downvotes_earned
                 = users[last'.author].downvotes_earned
            /\ users'[last'.author].score = users[last'.author].score )]_vars

\* C11: for a person m, on_member_remove(m) followed by on_member_join(m)
\* ends without error in a store where m has an account whose four counters
\* are all 0, whatever m's counters were before the leave.
C11_RejoinIsZeroed ==
    \A id \in People : \A name \in Names :
        LET left == on_member_remove(users, id)
            r    == on_member_join(left, Member(id, name))
        IN /\ id \notin DOMAIN left
           /\ r.error = "none"
           /\ id \in DOMAIN r.users
           /\ Counters(r.users[id]) = <<0, 0, 0, 0>>
           /\ r.users[id].user_name = name

\* A person has just joined without error and holds a zeroed account while
\* another account still counts a vote cast, i.e. votes were handled before
\* the join.
C11_Witness ==
    /\ last.kind = "join" /\ last.error = "none"
    /\ last.voter \in People /\ last.voter \in DOMAIN users
    /\ Counters(users[last.voter]) = <<0, 0, 0, 0>>
    /\ \E other \in DOMAIN users : users[other].times_voted > 0

\* C12: the sync of on_ready and update, run over a member list, changes only
\* user_name for a member who has an account, creates a zeroed account for a
\* person who has none, creates nothing for a bot, leaves every other row
\* alone, and run a second time over the same list changes nothing more.
C12_SyncIdempotent ==
    \A ids \in SUBSET Ids : \A nm \in [ids -> Names] :
        LET ms    == {Member(i, nm[i]) : i \in ids}
            once  == SyncAll(users, ms)
            twice == SyncAll(once, ms)
        IN /\ twice = once
           /\ DOMAIN once = (DOMAIN users) \cup (ids \cap People)
           /\ \A i \in DOMAIN once :
                 /\ i \in ids => once[i].user_name = nm[i]
                 /\ i \notin ids => once[i] = users[i]
                 /\ i \in DOMAIN users =>
                        Counters(once[i]) = Counters(users[i])
                 /\ i \notin DOMAIN users =>
                        Counters(once[i]) = <<0, 0, 0, 0>>

\* The update command has run over a guild one of whose members holds an
\* account with upvotes earned and votes cast.
C12_Witness ==
    /\ last.kind = "update"
    /\ \E i \in members \cap DOMAIN users :
          /\ users[i].upvotes_earned > 0
          /\ \E j \in members \cap DOMAIN users : users[j].times_voted > 0

\* C13: a join event for a person who already has an account raises no
\* error in the handler and leaves that account's counters as they were.
C13_DuplicateCreateNeverRaises ==
    [][(last'.kind = "join" /\ last'.voter \in People
            /\ last'.voter \in DOMAIN users) =>
          /\ last'.error = "none"
          /\ last'.voter \in DOMAIN users'
          /\ Counters(users'[last'.voter]) = Counters(users[last'.voter])]_vars

\* C14: no account row exists for a bot; the join of a bot, and change_up and
\* change_down aimed at a bot's id, leave the store as it is.
C14_NoBotAccount ==
    /\ \A id \in Bots : id \notin DOMAIN users
    /\ \A id \in Bots : \A name \in Names :
          on_member_join(users, Member(id, name)).users = users
    /\ \A id \in Bots : \A num \in Deltas :
          /\ change_up(users, id, num) = users
          /\ change_down(users, id, num) = users

\* A bot has just joined a guild whose people hold accounts.
C14_Witness ==
    /\ last.kind = "join" /\ IsBot(last.voter)
    /\ DOMAIN users = People

\* C15: change_up and change_down, applied to an existing account, commit a
\* state in which that account has score = upvotes_earned - downvotes_earned.
C15_AdjustKeepsScore ==
    [][(last'.kind \in {"change_up", "change_down"}
            /\ last'.arg[1] \in DOMAIN users) =>
          LET row == users'[last'.arg[1]]
          IN row.score = row.upvotes_earned - row.downvotes_earned]_vars

\* C16: limit rejects every threshold <= 0 and every threshold >= 1.
C16_RejectsOutOfRange ==
    (last.kind = "limit"
        /\ (last.arg[1] <= 0 \/ last.arg[1] >= ThresholdUnit)) =>
      limit(users, last.arg[1], last.arg[2]).rejected

\* C17: limit never divides by zero: in every state reached by reaction
\* events, sync, change_up and change_down, every row that passes the
\* zero-vote filter has upvotes_earned + downvotes_earned # 0.
C17_NeverDividesByZero ==
    last.kind = "limit" =>
      /\ last.error # "ZeroDivisionError"
      /\ \A i \in DOMAIN users :
            PassesZeroFilter(users[i]) =>
               users[i].upvotes_earned + users[i].downvotes_earned # 0

\* C18: for a threshold t with 0 < t < 1 limit reports exactly the accounts
\* with up + down >= 1, up / (up + down) <= t and, with a second argument,
\* up + down >= that argument.
C18_ReportsExactlyBelowRatio ==
    (last.kind = "limit"
        /\ last.arg[1] > 0 /\ last.arg[1] < ThresholdUnit) =>
      LET q   == last.arg[1]
          min == last.arg[2]
          r   == limit(users, q, min)
          Votes(i) == users[i].upvotes_earned + users[i].downvotes_earned
      IN /\ r.error = "none"
         /\ ~r.rejected
         /\ r.found =
              {i \in DOMAIN users :
                 /\ Votes(i) >= 1
                 /\ users[i].upvotes_earned * ThresholdUnit <= q * Votes(i)
                 /\ (min = <<>> \/ Votes(i) >= min[1])}

Range(seq) == {seq[i] : i \in DOMAIN seq}

\* C19: whatever order the SELECT returns, for the criteria score,
\* upvotes_earned and downvotes_earned the rows top drops from the first num
\* rows are exactly the accounts with upvotes_earned = 0 and
\* downvotes_earned = 0; for times_voted no row is dropped; the rows listed
\* are non-increasing in the criterion and number at most num.
C19_TopDropsExactlyZeroVoteRows ==
    (last.kind = "top"
        /\ last.arg[1] >= TopMin /\ last.arg[1] <= TopMax) =>
      LET num == last.arg[1]
          k   == last.arg[2]
      IN \A order \in OrderBy(users, k) :
           LET first == FirstRows(order, num)
               rows  == top(users, num, k, order).rows
           IN /\ k # "times_voted" =>
                    Range(first) \ Range(rows) =
                      {i \in Range(first) :
                          /\ users[i].upvotes_earned = 0
                          /\ users[i].downvotes_earned = 0}
              /\ k = "times_voted" => rows = first
              /\ Len(rows) <= num
              /\ \A i, j \in DOMAIN rows :
                    i < j => users[rows[i]][k] >= users[rows[j]][k]

\* The add events that get as far as the post-wise counting of bot.py:345.
ReachesMonitor(guild, p) ==
    /\ ~IsBot(p.voter)
    /\ p.author \in guild /\ ~IsBot(p.author)
    /\ p.attachments > 0
    /\ p.author # p.voter

\* C20 as claimed: for the reaction event just handled, add or remove, and
\* whatever the live tally of its message, an alert is sent exactly when the
\* tally has downvotes > upvotes + 5.
C20_MonitorOnEveryEvent ==
    IsReaction(last) =>
      \A tally \in Tallies :
         LET alert ==
               IF last.kind = "add"
               THEN on_raw_reaction_add(users, members, LastPayload,
                                        tally).alert
               ELSE on_raw_reaction_remove(users, members, LastPayload).alert
         IN alert <=> tally[2] > tally[1] + AlertMargin

\* C20 amended: an add event sends an alert exactly when it is a reaction
\* (any emoji) of a person to an attachment-bearing post of another person in
\* the guild and the live tally has downvotes > upvotes + 5; a remove event
\* never sends one.
C20_AlertIffCountedAddOverMargin ==
    \A p \in Payloads :
       /\ \A tally \in Tallies :
             p.voter \in members \cup Bots =>
               (on_raw_reaction_add(users, members, p, tally).alert
                  <=> (ReachesMonitor(members, p)
                         /\ tally[2] > tally[1] + AlertMargin))
       /\ ~on_raw_reaction_remove(users, members, p).alert
       /\ (last.alert => last.kind = "add")

\* An add of an emoji that is no vote has just sent an alert.
C20_Witness ==
    /\ last.kind = "add" /\ last.alert
    /\ last.emoji = "other"
    /\ last.voter # last.author

C22_AddChangesExactlyThree ==
    \A p \in Payloads : \A tally \in Tallies :
        ( /\ PassesGates(members, p)
          /\ p.voter \in members
          /\ p.author \in DOMAIN users /\ p.voter \in DOMAIN users )
        =>
        LET A == p.author
            B == p.voter
            o == on_raw_reaction_add(users, members, p, tally)
        IN /\ o.error = "none" /\ ~o.retracted
           /\ o.users =
                IF p.emoji = "1Upvote"
                THEN [users EXCEPT ![A].upvotes_earned = @ + 1,
                                   ![A].score = @ + 1,
                                   ![B].times_voted = @ + 1]
                ELSE [users EXCEPT ![A].downvotes_earned = @ + 1,
                                   ![A].score = @ - 1,
                                   ![B].times_voted = @ + 1]

\* B's counted add(downvote) has just been handled for an author who
\* keeps an upvote earned before.
C22_Witness ==
    /\ last.kind = "add" /\ last.emoji = "1Downvote"
    /\ PassesGates(members, LastPayload)
    /\ last.author \in DOMAIN users /\ last.voter \in DOMAIN users
    /\ users[last.author].upvotes_earned = 1
    /\ users[last.author].downvotes_earned = 1
    /\ users[last.author].score = 0
    /\ users[last.voter].times_voted = MaxVotes

\* An account with at least one upvote or downvote.
HasVotes(row) == row.upvotes_earned # 0 \/ row.downvotes_earned # 0

\* C23: for the criteria score, upvotes_earned and downvotes_earned, and
\* whatever order the SELECT returns, top lists only accounts with votes, as
\* many of them as asked for (all of them when there are fewer), and none
\* that is left out ranks above one that is listed.  Stated for stores in
\* which every account has non-negative counters and score = upvotes_earned
\* - downvotes_earned, the stores that reaction events alone produce.
C23_TopReturnsHighestVoted ==
    (last.kind = "top"
        /\ last.arg[1] >= TopMin /\ last.arg[1] <= TopMax
        /\ last.arg[2] # "times_voted"
        /\ \A i \in DOMAIN users :
              /\ users[i].upvotes_earned >= 0
              /\ users[i].downvotes_earned >= 0
              /\ users[i].score
                    = users[i].upvotes_earned - users[i].downvotes_earned) =>
      LET num   == last.arg[1]
          k     == last.arg[2]
          voted == {i \in DOMAIN users : HasVotes(users[i])}
      IN \A order \in OrderBy(users, k) :
           LET rows == top(users, num, k, order).rows
           IN /\ Range(rows) \subseteq voted
              /\ Len(rows) = IF num < Cardinality(voted) THEN num
                             ELSE Cardinality(voted)
              /\ \A i \in Range(rows) : \A j \in voted \ Range(rows) :
                    users[i][k] >= users[j][k]

\* C24: with several reaction handlers in flight, interleaved at their
\* awaits, no two handlers are between their gate and floor-guard reads and
\* their UPDATEs at once; what a remove handler read is still what the store
\* holds when it writes, so its writes are those of the handler run alone on
\* the current store; and no upvotes_earned or downvotes_earned goes below 0.
C24_CriticalSectionsDoNotInterleave ==
    /\ \A t, u \in TaskIds :
          (tasks[t].pc = "read" /\ tasks[u].pc = "read") => t = u
    /\ \A t \in TaskIds :
          (tasks[t].pc = "read" /\ tasks[t].kind = "remove") =>
             LET p == tasks[t].p
             IN /\ tasks[t].guard =
                     FloorGuard(get_db_and_cursor(users), p.author,
                                GuardColumn(p))
                /\ RemoveWrites(users, p, tasks[t].guard).users =
                     on_raw_reaction_remove(users, members, p).users
    /\ \A id \in DOMAIN users :
          users[id].upvotes_earned >= 0 /\ users[id].downvotes_earned >= 0

\* Two remove(upvote) handlers are in flight on an author with
\* upvotes_earned = 1: the one dispatched second has passed the floor guard
\* and is about to write while the one dispatched first is still suspended
\* in its fetches.
C24_Witness ==
    /\ tasks[1].kind = "remove" /\ tasks[1].pc = "fetch"
    /\ tasks[2].kind = "remove" /\ tasks[2].pc = "read"
    /\ tasks[2].guard = "pass"
    /\ tasks[1].p.emoji = "1Upvote" /\ tasks[2].p = tasks[1].p
    /\ tasks[1].p.author \in DOMAIN users
    /\ users[tasks[1].p.author].upvotes_earned = 1

====
